---------------------------- MODULE Spec2Model ----------------------------
(***************************************************************************)
(* A model of age's STREAM transport (src/age/src/primitives/stream.rs)    *)
(* and of the payload-key selection of the decryptors                      *)
(* (src/age/src/protocol/decryptor.rs).                                    *)
(*                                                                         *)
(* Sizes.  The chunk and tag sizes of the source are 64 KiB and 16 bytes.  *)
(* The model keeps every relation between them (an encrypted chunk is a    *)
(* chunk plus a tag, the last chunk is the only short one, offsets are     *)
(* split by division and remainder) and scales the two numbers down so     *)
(* that containers of several chunks can be enumerated byte by byte.       *)
(*                                                                         *)
(* Integers.  The chunk counter of the source is a u128.  It is kept at    *)
(* its full width as eight 16-bit limbs, most significant first.  The      *)
(* u64/usize/i64 offsets of the reader stay far below 2^31 in every        *)
(* modelled run; where the source subtracts unsigned values that can go    *)
(* below zero the model takes both outcomes of the build: a panic (with    *)
(* overflow checks) or the wrapped value (without), the wrapped value v    *)
(* being kept as the negative integer v - 2^64.                            *)
(***************************************************************************)
EXTENDS Integers, Sequences, FiniteSets, TLC

\* const CHUNK_SIZE: usize = 64 * 1024 (scaled)
CHUNK_SIZE == 3
\* const TAG_SIZE: usize = 16 (scaled)
TAG_SIZE == 2
ENCRYPTED_CHUNK_SIZE == CHUNK_SIZE + TAG_SIZE

\* Longest plaintext handed to a writer.
MaxLen == 7
\* Longest run of container bytes in front of the stream.
MaxHeader == 3
\* Longest caller buffer handed to read.
MaxBuf == 2
\* Largest byte count of StartPos::Implicit the reads are followed to.
MaxCount == 20
\* Longest list of recipient stanzas in a header.
MaxStanzas == 3
\* Most answers of the source scripted ahead of one read.
MaxFaults == 2

Min(a, b) == IF a < b THEN a ELSE b

(***************************************************************************)
(* u128 values: eight 16-bit limbs, most significant first.                *)
(***************************************************************************)
Limb == 65536
NLimbs == 8

U128(n) == <<0, 0, 0, 0, 0, 0, n \div Limb, n % Limb>>

RECURSIVE LimbsGT(_, _, _)
LimbsGT(a, b, i) ==
    IF i > NLimbs THEN FALSE
    ELSE IF a[i] # b[i] THEN a[i] > b[i]
    ELSE LimbsGT(a, b, i + 1)

\* a > b on u128
GT(a, b) == LimbsGT(a, b, 1)

\* carry into limb i of a + b (limbs i+1..8 summed first)
RECURSIVE Carry(_, _, _)
Carry(a, b, i) ==
    IF i >= NLimbs THEN 0
    ELSE (a[i + 1] + b[i + 1] + Carry(a, b, i + 1)) \div Limb

\* a + b on u128 (the sum modulo 2^128)
Add(a, b) == [i \in 1..NLimbs |-> (a[i] + b[i] + Carry(a, b, i)) % Limb]

BitOrFlag_dropped(position, last_block) == position

\* position | (last_block as u128)
BitOrFlag(position, last_block) ==
    [position EXCEPT ![NLimbs] =
        IF last_block /\ position[NLimbs] % 2 = 0
        THEN position[NLimbs] + 1 ELSE position[NLimbs]]

\* u128::to_be_bytes: sixteen bytes, most significant first
to_be_bytes(x) ==
    [i \in 1..(2 * NLimbs) |->
        IF i % 2 = 1 THEN x[(i + 1) \div 2] \div 256 ELSE x[i \div 2] % 256]

\* const COUNTER_INCR: u128 = 1 << 8
COUNTER_INCR == U128(256)
\* const COUNTER_MAX: u128 = 0xffffffff_ffffffff_ffffff00
COUNTER_MAX == <<0, 0, 65535, 65535, 65535, 65535, 65535, 65280>>

(***************************************************************************)
(* Results.                                                                *)
(***************************************************************************)
Ok(v) == [ok |-> TRUE, v |-> v]
Err(e) == [ok |-> FALSE, v |-> e]

(***************************************************************************)
(* Stream::aead_nonce                                                      *)
(***************************************************************************)
aead_nonce_off_by_one(position, last_block) ==
    IF position = COUNTER_MAX \/ GT(position, COUNTER_MAX) THEN Err("aead")
    ELSE Ok(SubSeq(to_be_bytes(BitOrFlag(position, last_block)), 5, 16))

aead_nonce(position, last_block) ==
    IF GT(position, COUNTER_MAX) THEN Err("aead")
    ELSE Ok(SubSeq(to_be_bytes(BitOrFlag(position, last_block)), 5, 16))

(***************************************************************************)
(* The AEAD (ChaCha20-Poly1305), idealised.  A byte on the wire is a       *)
(* record: body byte i of a chunk is fixed by the key, the nonce, i and    *)
(* the plaintext byte; a tag byte is fixed by the key, the nonce and the   *)
(* whole plaintext.  x = 1 marks a byte changed after encryption.          *)
(* Decryption releases a plaintext only for a buffer that is exactly the   *)
(* encryption of that plaintext under the same key and nonce.              *)
(***************************************************************************)
PlainByte(b) == [k |-> 0, n |-> <<>>, i |-> 0, p |-> b, m |-> <<>>, x |-> 0]
ZeroByte == PlainByte(0)

aead_encrypt(key, nonce, pt) ==
    [i \in 1..(Len(pt) + TAG_SIZE) |->
        IF i <= Len(pt)
        THEN [k |-> key, n |-> nonce, i |-> i, p |-> pt[i].p, m |-> <<>>, x |-> 0]
        ELSE [k |-> key, n |-> nonce, i |-> i, p |-> 0,
              m |-> [j \in 1..Len(pt) |-> pt[j].p], x |-> 0]]

BodyOf(ct) == [i \in 1..(Len(ct) - TAG_SIZE) |-> PlainByte(ct[i].p)]

aead_decrypt_unchecked(key, nonce, ct) ==
    IF Len(ct) < TAG_SIZE THEN Err("aead")
    ELSE Ok(BodyOf(ct))

aead_decrypt(key, nonce, ct) ==
    IF Len(ct) < TAG_SIZE THEN Err("aead")
    ELSE IF aead_encrypt(key, nonce, BodyOf(ct)) = ct THEN Ok(BodyOf(ct))
    ELSE Err("aead")

(***************************************************************************)
(* impl StreamPrimitive for Stream                                         *)
(***************************************************************************)
encrypt_in_place(key, position, last_block, buffer) ==
    LET nonce == aead_nonce(position, last_block) IN
    IF ~nonce.ok THEN Err("aead")
    ELSE Ok(aead_encrypt(key, nonce.v, buffer))

decrypt_in_place(key, position, last_block, buffer) ==
    LET nonce == aead_nonce(position, last_block) IN
    IF ~nonce.ok THEN Err("aead")
    ELSE aead_decrypt(key, nonce.v, buffer)

(***************************************************************************)
(* aead::stream::Encryptor / Decryptor over Stream (AgeEncryptor,          *)
(* AgeDecryptor): the primitive's key and the running position.  The       *)
(* *_next_* calls refuse the position COUNTER_MAX, run the primitive, and  *)
(* advance the position only when it succeeded; the *_last_* calls run     *)
(* the primitive with the last-block flag and leave the position alone.    *)
(***************************************************************************)
Stream_new(key) == [key |-> key, position |-> U128(0)]

encrypt_next_in_place_stuck(stream, buffer) ==
    LET r == encrypt_in_place(stream.key, stream.position, FALSE, buffer) IN
    IF stream.position = COUNTER_MAX \/ ~r.ok
    THEN [ok |-> FALSE, stream |-> stream, buffer |-> buffer]
    ELSE [ok |-> TRUE, stream |-> stream, buffer |-> r.v]

encrypt_next_in_place(stream, buffer) ==
    LET r == encrypt_in_place(stream.key, stream.position, FALSE, buffer) IN
    IF stream.position = COUNTER_MAX \/ ~r.ok
    THEN [ok |-> FALSE, stream |-> stream, buffer |-> buffer]
    ELSE [ok |-> TRUE,
          stream |-> [stream EXCEPT !.position = Add(@, COUNTER_INCR)],
          buffer |-> r.v]

encrypt_last_in_place(stream, buffer) ==
    LET r == encrypt_in_place(stream.key, stream.position, TRUE, buffer) IN
    IF ~r.ok THEN [ok |-> FALSE, stream |-> stream, buffer |-> buffer]
    ELSE [ok |-> TRUE, stream |-> stream, buffer |-> r.v]

decrypt_next_in_place(stream, buffer) ==
    LET r == decrypt_in_place(stream.key, stream.position, FALSE, buffer) IN
    IF stream.position = COUNTER_MAX \/ ~r.ok
    THEN [ok |-> FALSE, stream |-> stream, buffer |-> buffer]
    ELSE [ok |-> TRUE,
          stream |-> [stream EXCEPT !.position = Add(@, COUNTER_INCR)],
          buffer |-> r.v]

decrypt_last_in_place(stream, buffer) ==
    LET r == decrypt_in_place(stream.key, stream.position, TRUE, buffer) IN
    IF ~r.ok THEN [ok |-> FALSE, stream |-> stream, buffer |-> buffer]
    ELSE [ok |-> TRUE, stream |-> stream, buffer |-> r.v]

(***************************************************************************)
(* StreamWriter.  A writer is [stream, inner, chunk]; inner is the sink's  *)
(* content.  Each operation returns the writer after it, its result and    *)
(* the list of (position, flag) pairs it encrypted under.                  *)
(***************************************************************************)
Stream_encrypt(key, inner) ==
    [stream |-> Stream_new(key), inner |-> inner, chunk |-> <<>>]

\* write that encrypts the buffer as soon as it is full
RECURSIVE write_loop_eager(_, _, _, _)
write_loop_eager(w, buf, bytes_written, used) ==
    IF buf = <<>>
    THEN [w |-> w, res |-> Ok(bytes_written), used |-> used]
    ELSE
        LET to_write == Min(CHUNK_SIZE - Len(w.chunk), Len(buf))
            chunk == w.chunk \o SubSeq(buf, 1, to_write)
            rest == SubSeq(buf, to_write + 1, Len(buf))
        IN
        IF Len(chunk) = CHUNK_SIZE
        THEN
            LET e == encrypt_next_in_place(w.stream, chunk) IN
            IF ~e.ok
            THEN [w |-> [w EXCEPT !.chunk = chunk],
                  res |-> Err("WriteZero"), used |-> used]
            ELSE write_loop_eager(
                    [stream |-> e.stream, inner |-> w.inner \o e.buffer,
                     chunk |-> <<>>],
                    rest, bytes_written + to_write,
                    Append(used, [position |-> w.stream.position,
                                  last_block |-> FALSE]))
        ELSE write_loop_eager([w EXCEPT !.chunk = chunk], rest,
                              bytes_written + to_write, used)

\* One pass of the loop of write, then the rest of the loop.
RECURSIVE write_loop(_, _, _, _)
write_loop(w, buf, bytes_written, used) ==
    IF buf = <<>>
    THEN [w |-> w, res |-> Ok(bytes_written), used |-> used]
    ELSE
        LET to_write == Min(CHUNK_SIZE - Len(w.chunk), Len(buf))
            chunk == w.chunk \o SubSeq(buf, 1, to_write)
            rest == SubSeq(buf, to_write + 1, Len(buf))
        IN
        IF rest # <<>>
        THEN
            LET e == encrypt_next_in_place(w.stream, chunk) IN
            IF ~e.ok
            THEN [w |-> [w EXCEPT !.chunk = chunk],
                  res |-> Err("WriteZero"), used |-> used]
            ELSE write_loop(
                    [stream |-> e.stream, inner |-> w.inner \o e.buffer,
                     chunk |-> <<>>],
                    rest, bytes_written + to_write,
                    Append(used, [position |-> w.stream.position,
                                  last_block |-> FALSE]))
        ELSE write_loop([w EXCEPT !.chunk = chunk], rest,
                        bytes_written + to_write, used)

\* impl Write for StreamWriter: write
write(w, buf) == write_loop(w, buf, 0, <<>>)

\* finish that sends a full buffer as a non-final chunk and then an empty
\* final chunk
finish_flushing_full(w) ==
    LET n == encrypt_next_in_place(w.stream, w.chunk)
        e == encrypt_last_in_place(n.stream, <<>>)
        l == encrypt_last_in_place(w.stream, w.chunk)
    IN
    IF Len(w.chunk) = CHUNK_SIZE /\ n.ok /\ e.ok
    THEN [w |-> [stream |-> e.stream,
                 inner |-> w.inner \o n.buffer \o e.buffer,
                 chunk |-> e.buffer],
          res |-> Ok(w.inner \o n.buffer \o e.buffer),
          used |-> <<[position |-> w.stream.position, last_block |-> FALSE],
                     [position |-> n.stream.position, last_block |-> TRUE]>>]
    ELSE IF ~l.ok THEN [w |-> w, res |-> Err("WriteZero"), used |-> <<>>]
    ELSE [w |-> [stream |-> l.stream, inner |-> w.inner \o l.buffer,
                 chunk |-> l.buffer],
          res |-> Ok(w.inner \o l.buffer),
          used |-> <<[position |-> w.stream.position, last_block |-> TRUE]>>]

finish_as_next(w) ==
    LET e == encrypt_next_in_place(w.stream, w.chunk) IN
    IF ~e.ok THEN [w |-> w, res |-> Err("WriteZero"), used |-> <<>>]
    ELSE [w |-> [stream |-> e.stream, inner |-> w.inner \o e.buffer,
                 chunk |-> e.buffer],
          res |-> Ok(w.inner \o e.buffer),
          used |-> <<[position |-> w.stream.position, last_block |-> FALSE]>>]

\* StreamWriter::finish
finish(w) ==
    LET e == encrypt_last_in_place(w.stream, w.chunk) IN
    IF ~e.ok THEN [w |-> w, res |-> Err("WriteZero"), used |-> <<>>]
    ELSE [w |-> [stream |-> e.stream, inner |-> w.inner \o e.buffer,
                 chunk |-> e.buffer],
          res |-> Ok(w.inner \o e.buffer),
          used |-> <<[position |-> w.stream.position, last_block |-> TRUE]>>]

(***************************************************************************)
(* StreamReader.  A reader is                                              *)
(*   [stream, inner, encrypted_chunk, encrypted_pos, start,                *)
(*    cur_plaintext_pos, chunk]                                            *)
(* with inner = [data, pos] the underlying source (a slice or a Cursor),   *)
(* start = [kind, v] the StartPos and chunk = [some, v] the Option.        *)
(* An operation's result is [kind, n, err, data]: kind is "Ok", "Err" or   *)
(* "Panic", n the number returned, data the bytes copied to the caller.    *)
(***************************************************************************)
None == [some |-> FALSE, v |-> <<>>]
Some(v) == [some |-> TRUE, v |-> v]

ResOk(n, data) == [kind |-> "Ok", n |-> n, err |-> "", data |-> data]
ResErr(e) == [kind |-> "Err", n |-> 0, err |-> e, data |-> <<>>]
ResPanic == [kind |-> "Panic", n |-> 0, err |-> "", data |-> <<>>]

Stream_decrypt(key, inner) ==
    [stream |-> Stream_new(key),
     inner |-> inner,
     encrypted_chunk |-> [i \in 1..ENCRYPTED_CHUNK_SIZE |-> ZeroByte],
     encrypted_pos |-> 0,
     start |-> [kind |-> "Implicit", v |-> 0],
     cur_plaintext_pos |-> 0,
     chunk |-> None]

\* Read for the source: as many of the k bytes asked for as are left.
\* A negative pos stands for a position beyond 2^63, past any data.
inner_read(inner, k) ==
    LET avail == IF inner.pos < 0 \/ inner.pos >= Len(inner.data) THEN 0
                 ELSE Len(inner.data) - inner.pos
        n == Min(k, avail)
    IN [inner |-> [inner EXCEPT !.pos = @ + n],
        bytes |-> SubSeq(inner.data, inner.pos + 1, inner.pos + n)]

\* StreamReader::count_bytes
count_bytes(r, read_) ==
    IF r.start.kind = "Implicit"
    THEN [r EXCEPT !.start.v = @ + read_]
    ELSE r

\* decrypt_chunk whose failed first attempt moves the counter on
decrypt_chunk_advancing(r0) ==
    LET r == count_bytes(r0, r0.encrypted_pos)
        chunk == SubSeq(r.encrypted_chunk, 1, r.encrypted_pos)
        last == Len(chunk) < ENCRYPTED_CHUNK_SIZE
        first == IF last THEN decrypt_last_in_place(r.stream, chunk)
                 ELSE decrypt_next_in_place(r.stream, chunk)
        moved == [r.stream EXCEPT !.position = Add(@, COUNTER_INCR)]
        second == decrypt_last_in_place(moved, chunk)
    IN
    IF chunk = <<>>
    THEN [r |-> [r EXCEPT !.encrypted_pos = 0], res |-> ResOk(0, <<>>)]
    ELSE IF first.ok
    THEN [r |-> [r EXCEPT !.stream = first.stream,
                          !.chunk = Some(first.buffer),
                          !.encrypted_pos = 0],
          res |-> ResOk(0, <<>>)]
    ELSE IF ~last /\ second.ok
    THEN [r |-> [r EXCEPT !.stream = second.stream,
                          !.chunk = Some(second.buffer),
                          !.encrypted_pos = 0],
          res |-> ResOk(0, <<>>)]
    ELSE [r |-> [r EXCEPT !.stream = IF last THEN @ ELSE moved],
          res |-> ResErr("InvalidData")]

\* decrypt_chunk without the second attempt on a full-size chunk
decrypt_chunk_no_retry(r0) ==
    LET r == count_bytes(r0, r0.encrypted_pos)
        chunk == SubSeq(r.encrypted_chunk, 1, r.encrypted_pos)
        first == IF Len(chunk) < ENCRYPTED_CHUNK_SIZE
                 THEN decrypt_last_in_place(r.stream, chunk)
                 ELSE decrypt_next_in_place(r.stream, chunk)
    IN
    IF chunk = <<>>
    THEN [r |-> [r EXCEPT !.encrypted_pos = 0], res |-> ResOk(0, <<>>)]
    ELSE IF first.ok
    THEN [r |-> [r EXCEPT !.stream = first.stream,
                          !.chunk = Some(first.buffer),
                          !.encrypted_pos = 0],
          res |-> ResOk(0, <<>>)]
    ELSE [r |-> r, res |-> ResErr("InvalidData")]

\* StreamReader::decrypt_chunk: the reader after it and Ok or the error
decrypt_chunk(r0) ==
    LET r == count_bytes(r0, r0.encrypted_pos)
        chunk == SubSeq(r.encrypted_chunk, 1, r.encrypted_pos)
    IN
    IF chunk = <<>>
    THEN [r |-> [r EXCEPT !.encrypted_pos = 0], res |-> ResOk(0, <<>>)]
    ELSE
        LET last == Len(chunk) < ENCRYPTED_CHUNK_SIZE
            first == IF last THEN decrypt_last_in_place(r.stream, chunk)
                     ELSE decrypt_next_in_place(r.stream, chunk)
            second == decrypt_last_in_place(first.stream, chunk)
        IN
        IF first.ok
        THEN [r |-> [r EXCEPT !.stream = first.stream,
                              !.chunk = Some(first.buffer),
                              !.encrypted_pos = 0],
              res |-> ResOk(0, <<>>)]
        ELSE IF ~last /\ second.ok
        THEN [r |-> [r EXCEPT !.stream = second.stream,
                              !.chunk = Some(second.buffer),
                              !.encrypted_pos = 0],
              res |-> ResOk(0, <<>>)]
        ELSE [r |-> [r EXCEPT !.stream = first.stream],
              res |-> ResErr("InvalidData")]

\* StreamReader::read_from_chunk with a caller buffer of buflen bytes.
\* An offset beyond the resident chunk's end makes the subtraction (with
\* overflow checks) or the slice index (without) panic.
read_from_chunk(r, buflen) ==
    IF ~r.chunk.some THEN [r |-> r, res |-> ResOk(0, <<>>)]
    ELSE
        LET chunk == r.chunk.v
            cur_chunk_offset == r.cur_plaintext_pos % CHUNK_SIZE
            to_read == Min(Len(chunk) - cur_chunk_offset, buflen)
            pos == r.cur_plaintext_pos + to_read
        IN
        IF cur_chunk_offset > Len(chunk) THEN [r |-> r, res |-> ResPanic]
        ELSE [r |-> [r EXCEPT !.cur_plaintext_pos = pos,
                              !.chunk = IF pos % CHUNK_SIZE = 0 THEN None
                                        ELSE @],
              res |-> ResOk(to_read,
                            SubSeq(chunk, cur_chunk_offset + 1,
                                   cur_chunk_offset + to_read))]

\* The loop of read that fills encrypted_chunk from the source.
RECURSIVE pull(_)
pull(r) ==
    IF r.encrypted_pos >= ENCRYPTED_CHUNK_SIZE THEN r
    ELSE
        LET x == inner_read(r.inner, ENCRYPTED_CHUNK_SIZE - r.encrypted_pos)
            n == Len(x.bytes)
        IN
        IF n = 0 THEN r
        ELSE pull([r EXCEPT
                !.inner = x.inner,
                !.encrypted_chunk =
                    [i \in 1..ENCRYPTED_CHUNK_SIZE |->
                        IF i > r.encrypted_pos /\ i <= r.encrypted_pos + n
                        THEN x.bytes[i - r.encrypted_pos] ELSE @[i]],
                !.encrypted_pos = @ + n])

\* impl Read for StreamReader: read
read(r, buflen) ==
    IF ~r.chunk.some
    THEN LET d == decrypt_chunk(pull(r)) IN
         IF d.res.kind # "Ok" THEN d
         ELSE read_from_chunk(d.r, buflen)
    ELSE read_from_chunk(r, buflen)

\* Read::read_exact over read, as seek uses it to drop k bytes.
RECURSIVE read_exact(_, _)
read_exact_step(x, k) ==
    IF x.res.kind # "Ok" THEN x
    ELSE IF x.res.n = 0 THEN [r |-> x.r, res |-> ResErr("UnexpectedEof")]
    ELSE read_exact(x.r, k - x.res.n)

read_exact(r, k) ==
    IF k = 0 THEN [r |-> r, res |-> ResOk(0, <<>>)]
    ELSE read_exact_step(read(r, k), k)

\* StreamReader::start: the outcomes, each the reader after it and the
\* start or a panic.  current - offset below zero panics or wraps.
start(r) ==
    IF r.start.kind = "Explicit"
    THEN {[r |-> r, res |-> ResOk(r.start.v, <<>>)]}
    ELSE
        LET current == r.inner.pos
            v == current - r.start.v
            cached == [r |-> [r EXCEPT !.start = [kind |-> "Explicit", v |-> v]],
                       res |-> ResOk(v, <<>>)]
        IN
        IF v >= 0 THEN {cached}
        ELSE {cached, [r |-> r, res |-> ResPanic]}

\* The second half of seek (from "let cur_chunk_index"), the target known.
seek_to(r, start_, target_pos) ==
    LET cur_chunk_index == r.cur_plaintext_pos \div CHUNK_SIZE
        target_chunk_index == target_pos \div CHUNK_SIZE
        target_chunk_offset == target_pos % CHUNK_SIZE
    IN
    IF target_chunk_index = cur_chunk_index
    THEN [r |-> [r EXCEPT !.cur_plaintext_pos = target_pos],
          res |-> ResOk(target_pos, <<>>)]
    ELSE
        LET moved == [r EXCEPT
                !.chunk = None,
                !.inner.pos = start_ + target_chunk_index * ENCRYPTED_CHUNK_SIZE,
                !.cur_plaintext_pos = target_chunk_index * CHUNK_SIZE]
            dropped == read_exact(moved, target_chunk_offset)
        IN
        IF dropped.res.kind # "Ok" THEN dropped
        ELSE [r |-> dropped.r, res |-> ResOk(target_pos, <<>>)]

\* The plaintext length as SeekFrom::End computes it; ct_end is the length
\* of the source, found by seeking it to its end and back.
pt_end_of(r, start_) ==
    LET ct_end == Len(r.inner.data)
        num_chunks == (ct_end \div ENCRYPTED_CHUNK_SIZE) + 1
        total_tag_size == num_chunks * TAG_SIZE
    IN ct_end - start_ - total_tag_size

\* The match of seek: the plaintext offset asked for, as the signed sum
\* the source forms (for SeekFrom::Start, the offset itself).
target_of(r, start_, pos) ==
    IF pos.whence = "Start" THEN pos.offset
    ELSE IF pos.whence = "Current" THEN r.cur_plaintext_pos + pos.offset
    ELSE pt_end_of(r, start_) + pos.offset

\* seek after start() returned start_: the outcomes.  pos is
\* [whence, offset].  A pt_end below zero panics or wraps; a start that
\* has wrapped before shows a build without overflow checks.
seek_from(r, start_, pos) ==
    LET res == target_of(r, start_, pos)
        done == IF res >= 0 THEN seek_to(r, start_, res)
                ELSE [r |-> r, res |-> ResErr("InvalidData")]
    IN
    IF pos.whence = "End" /\ pt_end_of(r, start_) < 0 /\ start_ >= 0
    THEN {done, [r |-> r, res |-> ResPanic]}
    ELSE {done}

\* impl Seek for StreamReader: seek
seek(r, pos) ==
    UNION {IF s.res.kind = "Ok" THEN seek_from(s.r, s.res.n, pos) ELSE {s}
           : s \in start(r)}

(***************************************************************************)
(* read over a source that misbehaves.  answers is what the source's next  *)
(* reads return: "One" a read of a single byte, "Interrupted" the error of *)
(* kind Interrupted, "TimedOut" an error of another kind; once the answers *)
(* are used up the source reads in full.                                   *)
(***************************************************************************)
Answers == {"One", "Interrupted", "TimedOut"}

\* The loop of read that loses the bytes pulled when the source fails
RECURSIVE pull_with_dropping(_, _)
pull_with_dropping(r, answers) ==
    IF r.encrypted_pos >= ENCRYPTED_CHUNK_SIZE \/ answers = <<>>
    THEN [r |-> pull(r), res |-> ResOk(0, <<>>)]
    ELSE IF Head(answers) = "Interrupted"
    THEN pull_with_dropping(r, Tail(answers))
    ELSE IF Head(answers) = "One"
    THEN IF Len(inner_read(r.inner, 1).bytes) = 0
         THEN [r |-> r, res |-> ResOk(0, <<>>)]
         ELSE pull_with_dropping(
                [r EXCEPT
                    !.inner = inner_read(r.inner, 1).inner,
                    !.encrypted_chunk[r.encrypted_pos + 1] =
                        inner_read(r.inner, 1).bytes[1],
                    !.encrypted_pos = @ + 1],
                Tail(answers))
    ELSE [r |-> [r EXCEPT !.encrypted_pos = 0], res |-> ResErr(Head(answers))]

\* The loop of read over the answers: the reader after it and Ok, or the
\* error the loop returns with.
RECURSIVE pull_with(_, _)
pull_with(r, answers) ==
    IF r.encrypted_pos >= ENCRYPTED_CHUNK_SIZE \/ answers = <<>>
    THEN [r |-> pull(r), res |-> ResOk(0, <<>>)]
    ELSE IF Head(answers) = "Interrupted"
    THEN pull_with(r, Tail(answers))
    ELSE IF Head(answers) = "One"
    THEN IF Len(inner_read(r.inner, 1).bytes) = 0
         THEN [r |-> r, res |-> ResOk(0, <<>>)]
         ELSE pull_with(
                [r EXCEPT
                    !.inner = inner_read(r.inner, 1).inner,
                    !.encrypted_chunk[r.encrypted_pos + 1] =
                        inner_read(r.inner, 1).bytes[1],
                    !.encrypted_pos = @ + 1],
                Tail(answers))
    ELSE [r |-> r, res |-> ResErr(Head(answers))]

\* impl Read for StreamReader: read, over the answers
read_with(r, buflen, answers) ==
    IF ~r.chunk.some
    THEN LET p == pull_with(r, answers) IN
         IF p.res.kind # "Ok" THEN p
         ELSE LET d == decrypt_chunk(p.r) IN
              IF d.res.kind # "Ok" THEN d
              ELSE read_from_chunk(d.r, buflen)
    ELSE read_from_chunk(r, buflen)

(***************************************************************************)
(* write over a sink that can fail.  room is the number of bytes the sink  *)
(* takes during the call before its write returns an error; write_all has  *)
(* then delivered the bytes before it.  A panic is the result              *)
(* [ok |-> FALSE, v |-> "Panic"].                                          *)
(***************************************************************************)
write_all(inner, bytes, room) ==
    IF Len(bytes) <= room
    THEN [inner |-> inner \o bytes, ok |-> TRUE, room |-> room - Len(bytes)]
    ELSE [inner |-> inner \o SubSeq(bytes, 1, room), ok |-> FALSE, room |-> 0]

\* One pass of the loop of write, then the rest of the loop, for a buffer
\* of at most CHUNK_SIZE bytes on entry.  encrypt_next_in_place has turned
\* self.chunk into the encrypted chunk when write_all runs, and the ? of
\* write_all returns before self.chunk.clear().
RECURSIVE write_loop_to(_, _, _, _, _)
write_loop_to(w, buf, bytes_written, used, room) ==
    IF buf = <<>>
    THEN [w |-> w, res |-> Ok(bytes_written), used |-> used]
    ELSE
        LET to_write == Min(CHUNK_SIZE - Len(w.chunk), Len(buf))
            chunk == w.chunk \o SubSeq(buf, 1, to_write)
            rest == SubSeq(buf, to_write + 1, Len(buf))
            e == encrypt_next_in_place(w.stream, chunk)
            sent == write_all(w.inner, e.buffer, room)
            now == Append(used, [position |-> w.stream.position,
                                 last_block |-> FALSE])
        IN
        IF rest = <<>>
        THEN [w |-> [w EXCEPT !.chunk = chunk],
              res |-> Ok(bytes_written + to_write), used |-> used]
        ELSE IF ~e.ok
        THEN [w |-> [w EXCEPT !.chunk = chunk],
              res |-> Err("WriteZero"), used |-> used]
        ELSE IF ~sent.ok
        THEN [w |-> [stream |-> e.stream, inner |-> sent.inner,
                     chunk |-> e.buffer],
              res |-> Err("sink"), used |-> now]
        ELSE write_loop_to(
                [stream |-> e.stream, inner |-> sent.inner, chunk |-> <<>>],
                rest, bytes_written + to_write, now, sent.room)

\* impl Write for StreamWriter: write over the failing sink, the outcomes.
\* CHUNK_SIZE - self.chunk.len() below zero panics or wraps to a number
\* above any buf.len(), and then the whole of buf joins the buffer.
write_to(w, buf, room) ==
    IF buf = <<>> THEN {[w |-> w, res |-> Ok(0), used |-> <<>>]}
    ELSE IF Len(w.chunk) > CHUNK_SIZE
    THEN {[w |-> w, res |-> [ok |-> FALSE, v |-> "Panic"], used |-> <<>>],
          [w |-> [w EXCEPT !.chunk = @ \o buf], res |-> Ok(Len(buf)),
           used |-> <<>>]}
    ELSE {write_loop_to(w, buf, 0, <<>>, room)}

(***************************************************************************)
(* The cooperative StreamWriter (feature "async").  The writer has a       *)
(* fourth field, encrypted_chunk: the Option of an EncryptedChunk          *)
(* [bytes, offset], the encrypted chunk in flight to the sink.  A poll of  *)
(* the sink takes some of the bytes offered or answers Pending; what the   *)
(* sink does during one call of the writer is given by accept, the total   *)
(* number of bytes it takes before it answers Pending.  A result is a      *)
(* Poll<io::Result<usize>>: [ready, ok, v, err].                           *)
(***************************************************************************)
Pending == [ready |-> FALSE, ok |-> FALSE, v |-> 0, err |-> ""]
ReadyOk(n) == [ready |-> TRUE, ok |-> TRUE, v |-> n, err |-> ""]
ReadyErr(e) == [ready |-> TRUE, ok |-> FALSE, v |-> 0, err |-> e]

Stream_encrypt_async(key, inner) ==
    [stream |-> Stream_new(key), inner |-> inner, chunk |-> <<>>,
     encrypted_chunk |-> None]

\* poll_flush_chunk that starts the chunk again after a Pending
poll_flush_chunk_restarting(w, accept) ==
    IF ~w.encrypted_chunk.some
    THEN [w |-> w, ready |-> TRUE, accept |-> accept]
    ELSE IF Len(w.encrypted_chunk.v.bytes) - w.encrypted_chunk.v.offset > accept
    THEN [w |-> [w EXCEPT !.inner = @ \o SubSeq(w.encrypted_chunk.v.bytes,
                                w.encrypted_chunk.v.offset + 1,
                                w.encrypted_chunk.v.offset + accept)],
          ready |-> FALSE, accept |-> 0]
    ELSE [w |-> [w EXCEPT !.inner = @ \o SubSeq(w.encrypted_chunk.v.bytes,
                                w.encrypted_chunk.v.offset + 1,
                                Len(w.encrypted_chunk.v.bytes)),
                          !.encrypted_chunk = None],
          ready |-> TRUE,
          accept |-> accept - (Len(w.encrypted_chunk.v.bytes)
                                - w.encrypted_chunk.v.offset)]

\* StreamWriter::poll_flush_chunk: the writer after it, whether it was
\* Ready, and what is left of accept
poll_flush_chunk(w, accept) ==
    IF ~w.encrypted_chunk.some
    THEN [w |-> w, ready |-> TRUE, accept |-> accept]
    ELSE
        LET chunk == w.encrypted_chunk.v
            left == Len(chunk.bytes) - chunk.offset
            n == Min(left, accept)
            inner == w.inner \o SubSeq(chunk.bytes, chunk.offset + 1,
                                       chunk.offset + n)
        IN
        IF n < left
        THEN [w |-> [w EXCEPT !.inner = inner,
                              !.encrypted_chunk.v.offset = @ + n],
              ready |-> FALSE, accept |-> 0]
        ELSE [w |-> [w EXCEPT !.inner = inner, !.encrypted_chunk = None],
              ready |-> TRUE, accept |-> accept - n]

\* impl AsyncWrite for StreamWriter: poll_write
poll_write(w0, buf, accept) ==
    LET f == poll_flush_chunk(w0, accept)
        w == f.w
        to_write == Min(CHUNK_SIZE - Len(w.chunk), Len(buf))
        chunk == w.chunk \o SubSeq(buf, 1, to_write)
        rest == SubSeq(buf, to_write + 1, Len(buf))
        e == encrypt_next_in_place(w.stream, chunk)
    IN
    IF ~f.ready THEN [w |-> w, res |-> Pending, used |-> <<>>]
    ELSE IF rest = <<>>
    THEN [w |-> [w EXCEPT !.chunk = chunk], res |-> ReadyOk(to_write),
          used |-> <<>>]
    ELSE IF ~e.ok
    THEN [w |-> [w EXCEPT !.chunk = chunk], res |-> ReadyErr("WriteZero"),
          used |-> <<>>]
    ELSE [w |-> [w EXCEPT !.stream = e.stream, !.chunk = <<>>,
                          !.encrypted_chunk =
                              Some([bytes |-> e.buffer, offset |-> 0])],
          res |-> ReadyOk(to_write),
          used |-> <<[position |-> w.stream.position, last_block |-> FALSE]>>]

\* impl AsyncWrite for StreamWriter: poll_close.  closes: the sink's own
\* poll_close answers Ready(Ok(()))
poll_close(w0, accept, closes) ==
    LET f == poll_flush_chunk(w0, accept)
        w == f.w
        e == encrypt_last_in_place(w.stream, w.chunk)
        last == IF w.chunk = <<>> THEN w
                ELSE [w EXCEPT !.stream = e.stream, !.chunk = <<>>,
                               !.encrypted_chunk =
                                   Some([bytes |-> e.buffer, offset |-> 0])]
        used == IF w.chunk = <<>> THEN <<>>
                ELSE <<[position |-> w.stream.position, last_block |-> TRUE]>>
        g == poll_flush_chunk(last, f.accept)
    IN
    IF ~f.ready THEN [w |-> w, res |-> Pending, used |-> <<>>]
    ELSE IF w.chunk # <<>> /\ ~e.ok
    THEN [w |-> w, res |-> ReadyErr("WriteZero"), used |-> <<>>]
    ELSE IF ~g.ready THEN [w |-> g.w, res |-> Pending, used |-> used]
    ELSE [w |-> g.w, res |-> IF closes THEN ReadyOk(0) ELSE Pending,
          used |-> used]

(***************************************************************************)
(* poll_flush_chunk step by step.  The sink is a buffer of fixed room that *)
(* takes at most step bytes a call: [kind, data, room, step, calls],       *)
(* calls the parity of the calls of its poll_write so far.  Out of room,   *)
(* a "Cursor" (a cursor over a slice) answers Ready(Ok(0)) and a "Pipe"    *)
(* answers Pending until its other end has made room.                      *)
(***************************************************************************)
sink_poll_write(inner, bytes) ==
    LET n == Min(Min(Len(bytes), inner.room), inner.step) IN
    IF n = 0 /\ inner.kind = "Pipe"
    THEN [inner |-> [inner EXCEPT !.calls = 1 - @], res |-> Pending]
    ELSE [inner |-> [inner EXCEPT !.data = @ \o SubSeq(bytes, 1, n),
                                  !.room = @ - n,
                                  !.calls = 1 - @],
          res |-> ReadyOk(n)]

\* One pass of the loop of poll_flush_chunk, a chunk being in flight: the
\* writer after it and whether the function has returned
flush_step(w) ==
    LET chunk == w.encrypted_chunk.v
        a == sink_poll_write(w.inner,
                SubSeq(chunk.bytes, chunk.offset + 1, Len(chunk.bytes)))
    IN
    IF ~a.res.ready
    THEN [w |-> [w EXCEPT !.inner = a.inner], returned |-> TRUE,
          res |-> Pending]
    ELSE IF chunk.offset + a.res.v = Len(chunk.bytes)
    THEN [w |-> [w EXCEPT !.inner = a.inner, !.encrypted_chunk = None],
          returned |-> TRUE, res |-> ReadyOk(0)]
    ELSE [w |-> [w EXCEPT !.inner = a.inner,
                          !.encrypted_chunk.v.offset = @ + a.res.v],
          returned |-> FALSE, res |-> Pending]

(***************************************************************************)
(* The state machine of one stream: a writer takes a plaintext in write    *)
(* calls of any sizes and is finished or dropped; the sink's bytes, behind *)
(* a header of any length, are handed to a reader, which is then read and  *)
(* sought.  Three specifications share the actions: Spec reads the         *)
(* container front to back, SpecTamper does so after one byte of it was    *)
(* changed, SpecSeek also seeks.                                           *)
(***************************************************************************)
VARIABLES
    phase,      \* "writing", "closed", "reading", "sought", "panicked"
    written,    \* plaintext bytes the writer accepted
    finished,   \* finish was called on the writer
    writer,     \* the StreamWriter; writer.inner is the sink
    enc_log,    \* the (position, flag) pairs the writer encrypted under
    tampered,   \* index in the sink of the changed byte, 0 for none
    header,     \* bytes of the container in front of the stream
    reader,     \* the StreamReader
    out,        \* the bytes the reads returned, up to the first seek
    prim,       \* a call of the StreamPrimitive at a chosen position
    dec         \* a decryptor and the result of its decrypt

vars == <<phase, written, finished, writer, enc_log, tampered, header,
          reader, out, prim, dec>>

\* Largest plaintext offset a seek is followed to
MaxOff == MaxLen + 1

\* The key of the tests: PayloadKey([7; 32])
Key == 7

\* The plaintext offered to the writer: bytes 1, 2, 3, ...
Pattern == [i \in 1..(MaxLen + 1) |-> PlainByte(i % 256)]
\* The plaintext the writer accepted
Plain == SubSeq(Pattern, 1, written)

HeaderBytes(h) == [i \in 1..h |-> PlainByte(255)]

NoReader == Stream_decrypt(Key, [data |-> <<>>, pos |-> 0])
NoPrim == [op |-> "none", position |-> U128(0), last_block |-> FALSE,
           res |-> Ok(<<>>)]
NoDec == [kind |-> "none", header |-> [recipients |-> <<>>, mac_ok |-> TRUE],
          res |-> Ok(<<>>), released |-> <<>>]

InitStream ==
    /\ phase = "writing"
    /\ written = 0
    /\ finished = FALSE
    /\ writer = Stream_encrypt(Key, <<>>)
    /\ enc_log = <<>>
    /\ tampered = 0
    /\ header = 0
    /\ reader = NoReader
    /\ out = <<>>

Init == InitStream /\ prim = NoPrim /\ dec = NoDec

\* w.write(buf) with the next k bytes of the plaintext
Write(k) ==
    /\ phase = "writing"
    /\ written + k <= MaxLen
    /\ LET x == write(writer, SubSeq(Pattern, written + 1, written + k)) IN
        /\ writer' = x.w
        /\ written' = IF x.res.ok THEN written + x.res.v ELSE written
        /\ enc_log' = enc_log \o x.used
    /\ UNCHANGED <<phase, finished, tampered, header, reader, out, prim, dec>>

\* w.finish()
Finish ==
    /\ phase = "writing"
    /\ LET x == finish(writer) IN
        /\ writer' = x.w
        /\ enc_log' = enc_log \o x.used
        /\ finished' = x.res.ok
    /\ phase' = "closed"
    /\ UNCHANGED <<written, tampered, header, reader, out, prim, dec>>

\* the writer goes out of scope without finish
Drop ==
    /\ phase = "writing"
    /\ phase' = "closed"
    /\ UNCHANGED <<written, finished, writer, enc_log, tampered, header,
                   reader, out, prim, dec>>

\* one byte of the finished sink is changed
Tamper(i) ==
    /\ phase = "closed"
    /\ finished
    /\ tampered = 0
    /\ i \in 1..Len(writer.inner)
    /\ writer' = [writer EXCEPT !.inner[i].x = 1]
    /\ tampered' = i
    /\ UNCHANGED <<phase, written, finished, enc_log, header, reader, out,
                   prim, dec>>

\* Stream::decrypt(key, source), the source standing h bytes into the
\* container, where the stream begins
Open(h) ==
    /\ phase = "closed"
    /\ header' = h
    /\ reader' = Stream_decrypt(Key, [data |-> HeaderBytes(h) \o writer.inner,
                                     pos |-> h])
    /\ phase' = "reading"
    /\ UNCHANGED <<written, finished, writer, enc_log, tampered, out,
                   prim, dec>>

\* r.read(&mut buf) with a buffer of buflen bytes
Read(buflen) ==
    /\ phase \in {"reading", "sought"}
    /\ LET x == read(reader, buflen) IN
        /\ x.r.start.v <= MaxCount
        /\ reader' = x.r
        /\ out' = IF phase = "reading" THEN out \o x.res.data ELSE out
        /\ phase' = IF x.res.kind = "Panic" THEN "panicked" ELSE phase
    /\ UNCHANGED <<written, finished, writer, enc_log, tampered, header,
                   prim, dec>>

\* r.seek(pos)
Seek(whence, offset) ==
    /\ phase \in {"reading", "sought"}
    /\ \E x \in seek(reader, [whence |-> whence, offset |-> offset]) :
        /\ x.r.cur_plaintext_pos <= MaxOff
        /\ reader' = x.r
        /\ phase' = IF x.res.kind = "Panic" THEN "panicked" ELSE "sought"
    /\ out' = <<>>
    /\ UNCHANGED <<written, finished, writer, enc_log, tampered, header,
                   prim, dec>>

NextWrite ==
    \/ \E k \in 0..MaxLen : Write(k)
    \/ Finish

Next ==
    \/ NextWrite
    \/ Drop
    \/ \E h \in 0..MaxHeader : Open(h)
    \/ \E n \in 1..MaxBuf : Read(n)

Spec == Init /\ [][Next]_vars

NextTamper ==
    \/ NextWrite
    \/ \E i \in 1..(MaxLen + 3 * TAG_SIZE) : Tamper(i)
    \/ \E h \in 0..MaxHeader : Open(h)
    \/ \E n \in 1..MaxBuf : Read(n)

SpecTamper == Init /\ [][NextTamper]_vars

NextSeek ==
    \/ NextWrite
    \/ \E h \in 0..MaxHeader : Open(h)
    \/ \E n \in 1..MaxBuf : Read(n)
    \/ \E w \in {"Start", "Current", "End"} :
            \E o \in (IF w = "Start" THEN 0 ELSE -MaxOff)..MaxOff : Seek(w, o)

SpecSeek == Init /\ [][NextSeek]_vars

(***************************************************************************)
(* Reading from a source that misbehaves (SpecFaulty): each read meets up  *)
(* to MaxFaults scripted answers of the source.                            *)
(***************************************************************************)
RECURSIVE AnswerSeqs(_)
AnswerSeqs(n) ==
    IF n = 0 THEN {<<>>}
    ELSE AnswerSeqs(n - 1)
         \cup {<<a>> \o s : a \in Answers,
                            s \in {t \in AnswerSeqs(n - 1) : Len(t) = n - 1}}

\* r.read(&mut buf) with a buffer of buflen bytes, the source answering
\* with answers first
ReadFaulty(buflen, answers) ==
    /\ phase = "reading"
    /\ LET x == read_with(reader, buflen, answers) IN
        /\ x.r.start.v <= MaxCount
        /\ reader' = x.r
        /\ out' = out \o x.res.data
        /\ phase' = IF x.res.kind = "Panic" THEN "panicked" ELSE phase
    /\ UNCHANGED <<written, finished, writer, enc_log, tampered, header,
                   prim, dec>>

NextFaulty ==
    \/ NextWrite
    \/ \E h \in 0..MaxHeader : Open(h)
    \/ \E n \in 1..MaxBuf : \E a \in AnswerSeqs(MaxFaults) : ReadFaulty(n, a)

SpecFaulty == Init /\ [][NextFaulty]_vars

(***************************************************************************)
(* Writing to a sink that can fail (SpecSink): during each write the sink  *)
(* takes some number of bytes and then fails.                              *)
(***************************************************************************)
\* Most bytes one write sends to the sink
MaxRoom == ((MaxLen \div CHUNK_SIZE) + 1) * ENCRYPTED_CHUNK_SIZE

\* w.write(buf) with the next k bytes of the plaintext, the sink failing
\* after room bytes
WriteTo(k, room) ==
    /\ phase = "writing"
    /\ written + k <= MaxLen
    /\ \E x \in write_to(writer, SubSeq(Pattern, written + 1, written + k),
                        room) :
        /\ writer' = x.w
        /\ written' = IF x.res.ok THEN written + x.res.v ELSE written
        /\ enc_log' = enc_log \o x.used
        /\ phase' = IF ~x.res.ok /\ x.res.v = "Panic" THEN "panicked"
                    ELSE phase
    /\ UNCHANGED <<finished, tampered, header, reader, out, prim, dec>>

NextSink == \E k \in 0..MaxLen : \E room \in 0..MaxRoom : WriteTo(k, room)

SpecSink == Init /\ [][NextSink]_vars

(***************************************************************************)
(* The cooperative writer (SpecAsync): the plaintext is offered to         *)
(* poll_write in pieces of any sizes, each poll with a sink that takes     *)
(* any number of bytes before it answers Pending; then poll_close is       *)
(* polled until it is Ready, and the sink's bytes are read back.           *)
(***************************************************************************)
InitAsync ==
    /\ phase = "writing"
    /\ written = 0
    /\ finished = FALSE
    /\ writer = Stream_encrypt_async(Key, <<>>)
    /\ enc_log = <<>>
    /\ tampered = 0
    /\ header = 0
    /\ reader = NoReader
    /\ out = <<>>
    /\ prim = NoPrim
    /\ dec = NoDec

\* w.poll_write(cx, buf) with the next k bytes of the plaintext
PollWrite(k, accept) ==
    /\ phase = "writing"
    /\ written + k <= MaxLen
    /\ LET x == poll_write(writer, SubSeq(Pattern, written + 1, written + k),
                           accept) IN
        /\ writer' = x.w
        /\ written' = IF x.res.ok THEN written + x.res.v ELSE written
        /\ enc_log' = enc_log \o x.used
    /\ UNCHANGED <<phase, finished, tampered, header, reader, out, prim, dec>>

\* w.poll_close(cx), polled again after Pending
PollClose(accept, closes) ==
    /\ phase \in {"writing", "closing"}
    /\ LET x == poll_close(writer, accept, closes) IN
        /\ writer' = x.w
        /\ enc_log' = enc_log \o x.used
        /\ finished' = x.res.ok
        /\ phase' = IF x.res.ready THEN "closed" ELSE "closing"
    /\ UNCHANGED <<written, tampered, header, reader, out, prim, dec>>

NextAsync ==
    \/ \E k \in 0..MaxLen : \E a \in 0..ENCRYPTED_CHUNK_SIZE : PollWrite(k, a)
    \/ \E a \in 0..ENCRYPTED_CHUNK_SIZE : \E c \in BOOLEAN : PollClose(a, c)
    \/ \E h \in 0..MaxHeader : Open(h)
    \/ \E n \in 1..MaxBuf : Read(n)

SpecAsync == InitAsync /\ [][NextAsync]_vars

(***************************************************************************)
(* The flush of the cooperative writer, one sink call at a time            *)
(* (SpecFlush).  The writer cuts chunks from the plaintext; a call of      *)
(* poll_flush_chunk with a chunk in flight enters the loop and makes one   *)
(* sink call per step until it returns.  The loop runs on without waiting  *)
(* for anything, hence the weak fairness of its step.                      *)
(***************************************************************************)
InitFlush ==
    /\ phase = "writing"
    /\ written = 0
    /\ finished = FALSE
    /\ \E kind \in {"Cursor", "Pipe"} : \E room \in 0..MaxRoom :
        \E step \in 1..ENCRYPTED_CHUNK_SIZE :
            writer = Stream_encrypt_async(Key,
                        [kind |-> kind, data |-> <<>>, room |-> room,
                         step |-> step, calls |-> 0])
    /\ enc_log = <<>>
    /\ tampered = 0
    /\ header = 0
    /\ reader = NoReader
    /\ out = <<>>
    /\ prim = NoPrim
    /\ dec = NoDec

\* w.poll_write(cx, buf) with no chunk in flight, so that its flush
\* returns at once
PollWriteIdle(k) ==
    /\ phase = "writing"
    /\ ~writer.encrypted_chunk.some
    /\ written + k <= MaxLen
    /\ LET x == poll_write(writer, SubSeq(Pattern, written + 1, written + k),
                           0) IN
        /\ writer' = x.w
        /\ written' = IF x.res.ok THEN written + x.res.v ELSE written
        /\ enc_log' = enc_log \o x.used
    /\ UNCHANGED <<phase, finished, tampered, header, reader, out, prim, dec>>

\* poll_flush_chunk is called with a chunk in flight and enters its loop
FlushEnter ==
    /\ phase = "writing"
    /\ writer.encrypted_chunk.some
    /\ phase' = "flushing"
    /\ UNCHANGED <<written, finished, writer, enc_log, tampered, header,
                   reader, out, prim, dec>>

\* one pass of the loop
FlushStep ==
    /\ phase = "flushing"
    /\ LET x == flush_step(writer) IN
        /\ writer' = x.w
        /\ phase' = IF x.returned THEN "writing" ELSE "flushing"
    /\ UNCHANGED <<written, finished, enc_log, tampered, header, reader, out,
                   prim, dec>>

\* the other end of the pipe takes a byte out of it
Drain ==
    /\ phase = "writing"
    /\ writer.inner.kind = "Pipe"
    /\ writer.inner.room < MaxRoom
    /\ writer' = [writer EXCEPT !.inner.room = @ + 1]
    /\ UNCHANGED <<phase, written, finished, enc_log, tampered, header,
                   reader, out, prim, dec>>

NextFlush ==
    \/ \E k \in 0..MaxLen : PollWriteIdle(k)
    \/ FlushEnter
    \/ FlushStep
    \/ Drain

SpecFlush == InitFlush /\ [][NextFlush]_vars /\ WF_vars(FlushStep)

(***************************************************************************)
(* The StreamPrimitive called at any position (SpecNonce): the positions   *)
(* around 0, around 2^88 and around 2^96, and the position of the chunk    *)
(* whose index has the eleven bytes 1, 2, ..., 11; with either flag.       *)
(***************************************************************************)
Positions ==
    {<<0, a, b, c, c, c, c, d>> :
        a \in {0, 1}, b \in {0, 255, 256, 65535}, c \in {0, 65535},
        d \in {0, 1, 256, 65280, 65281, 65535}}
    \cup {<<0, 0, 258, 772, 1286, 1800, 2314, 2816>>}

\* The buffer handed to encrypt_in_place
PrimPlain == <<PlainByte(1), PlainByte(2)>>
\* The buffer handed to decrypt_in_place: PrimPlain as encrypted under the
\* low twelve bytes of the position and flag
PrimCipher(position, last_block) ==
    aead_encrypt(Key,
        SubSeq(to_be_bytes(BitOrFlag(position, last_block)), 5, 16), PrimPlain)

InitNonce ==
    /\ phase = "primitive"
    /\ written = 0
    /\ finished = FALSE
    /\ writer = Stream_encrypt(Key, <<>>)
    /\ enc_log = <<>>
    /\ tampered = 0
    /\ header = 0
    /\ reader = NoReader
    /\ out = <<>>
    /\ dec = NoDec
    /\ prim \in {[op |-> "none", position |-> p, last_block |-> b,
                  res |-> Ok(<<>>)] : p \in Positions, b \in BOOLEAN}

StreamVars == <<phase, written, finished, writer, enc_log, tampered, header,
                reader, out>>

\* Stream::encrypt_in_place(position, last_block, &[], buffer)
EncryptInPlace ==
    /\ prim.op = "none"
    /\ prim' = [prim EXCEPT
            !.op = "encrypt",
            !.res = encrypt_in_place(Key, prim.position, prim.last_block,
                                     PrimPlain)]
    /\ UNCHANGED <<StreamVars, dec>>

\* Stream::decrypt_in_place(position, last_block, &[], buffer)
DecryptInPlace ==
    /\ prim.op = "none"
    /\ prim' = [prim EXCEPT
            !.op = "decrypt",
            !.res = decrypt_in_place(Key, prim.position, prim.last_block,
                        PrimCipher(prim.position, prim.last_block))]
    /\ UNCHANGED <<StreamVars, dec>>

NextNonce == EncryptInPlace \/ DecryptInPlace

SpecNonce == InitNonce /\ [][NextNonce]_vars

(***************************************************************************)
(* The decryptors (SpecKey).  A header is its list of recipient stanzas.   *)
(* What an identity or a passphrase makes of a stanza is the work of       *)
(* collaborators outside these files; a stanza here is                     *)
(*   [kind, to, body]                                                      *)
(* kind "X25519" or "scrypt", to the identity it is wrapped to (0: none    *)
(* the caller holds, or not the caller's passphrase), body "good" or "bad" *)
(* (a wrapped key that cannot be unwrapped: a failed decryption, a work    *)
(* factor above the ceiling).  The file key of stanza i is i.  mac_ok says *)
(* whether the header is one the payload key can be derived over.          *)
(***************************************************************************)
OptNone == [some |-> FALSE, v |-> Ok(0)]
OptSome(v) == [some |-> TRUE, v |-> v]

Stanzas ==
    [kind : {"X25519", "scrypt"}, to : 0..2, body : {"good", "bad"}]

\* The identities handed to RecipientsDecryptor::decrypt
Identities == <<1, 2>>
\* The nonce of the header
HeaderNonce == 9

\* Identity::unwrap_file_key(stanza, callbacks) -> Option<Result<FileKey>>
Identity_unwrap_file_key(key, r, fk) ==
    IF r.kind = "X25519" /\ r.to = key
    THEN OptSome(IF r.body = "good" THEN Ok(fk) ELSE Err("DecryptionFailed"))
    ELSE OptNone

\* scrypt::RecipientStanza::unwrap_file_key(passphrase, max_work_factor)
\* -> Result<Option<FileKey>>
Scrypt_unwrap_file_key(r, fk) ==
    IF r.body = "bad" THEN Err("ExcessiveWork")
    ELSE IF r.to = 0 THEN Ok(OptNone)
    ELSE Ok(OptSome(fk))

\* v1_payload_key(header, file_key, nonce) -> Result<[u8; 32], Error>
v1_payload_key(hdr, file_key, nonce) ==
    IF hdr.mac_ok
    THEN Ok([file_key |-> file_key, nonce |-> nonce, over |-> hdr.recipients])
    ELSE Err("InvalidMac")

\* Iterator::find_map over the identities, from identity i on
RECURSIVE find_identity(_, _, _)
find_identity(i, r, fk) ==
    IF i > Len(Identities) THEN OptNone
    ELSE LET u == Identity_unwrap_file_key(Identities[i], r, fk) IN
         IF u.some THEN u ELSE find_identity(i + 1, r, fk)

\* The closure RecipientsDecryptor::decrypt_with_callbacks passes as filter
recipients_filter(r, fk) == find_identity(1, r, fk)

\* Result::transpose
transpose(res) ==
    IF ~res.ok THEN OptSome(res)
    ELSE IF res.v.some THEN OptSome(Ok(res.v.v))
    ELSE OptNone

\* The closure PassphraseDecryptor::decrypt passes as filter
passphrase_filter(r, fk) ==
    IF r.kind = "scrypt" THEN transpose(Scrypt_unwrap_file_key(r, fk))
    ELSE OptNone

filter(kind, r, fk) ==
    IF kind = "recipients" THEN recipients_filter(r, fk)
    ELSE passphrase_filter(r, fk)

\* Iterator::find_map(filter) over the recipients, from stanza i on
RECURSIVE find_map(_, _, _)
find_map(kind, recipients, i) ==
    IF i > Len(recipients) THEN OptNone
    ELSE LET f == filter(kind, recipients[i], i) IN
         IF f.some THEN f ELSE find_map(kind, recipients, i + 1)

\* obtain_payload_key that passes over the stanzas whose unwrap fails
RECURSIVE find_map_ok(_, _, _)
find_map_ok(kind, recipients, i) ==
    IF i > Len(recipients) THEN OptNone
    ELSE LET f == filter(kind, recipients[i], i) IN
         IF f.some /\ f.v.ok THEN f ELSE find_map_ok(kind, recipients, i + 1)

obtain_payload_key_skipping(kind, hdr, nonce) ==
    LET found == find_map_ok(kind, hdr.recipients, 1)
        file_key == IF found.some THEN found.v ELSE Err("NoMatchingKeys")
    IN
    IF ~file_key.ok THEN file_key
    ELSE v1_payload_key(hdr, file_key.v, nonce)

\* BaseDecryptor::obtain_payload_key with the filter of decryptor `kind`
obtain_payload_key(kind, hdr, nonce) ==
    LET found == find_map(kind, hdr.recipients, 1)
        file_key == IF found.some THEN found.v ELSE Err("NoMatchingKeys")
    IN
    IF ~file_key.ok THEN file_key
    ELSE v1_payload_key(hdr, file_key.v, nonce)

\* RecipientsDecryptor::decrypt_with_callbacks, PassphraseDecryptor::decrypt:
\* the reader over the input, or the error
Decryptor_decrypt(kind, hdr, nonce, input) ==
    LET payload_key == obtain_payload_key(kind, hdr, nonce) IN
    IF ~payload_key.ok THEN payload_key
    ELSE Ok(Stream_decrypt(payload_key.v, input))

(***************************************************************************)
(* The memory of the holders of payload-key bytes, as each is released:    *)
(* [zeroed, key], zeroed saying whether the bytes were overwritten with    *)
(* zeros before the release, key the payload key they held.                *)
(***************************************************************************)
\* impl Drop for PayloadKey: the bytes are zeroized
PayloadKey_drop(key) == [zeroed |-> TRUE, key |-> key]
\* A [u8; 32] going out of scope: it has no Drop, the bytes stay
Array_release(key) == [zeroed |-> FALSE, key |-> key]

\* Stream::new(key: PayloadKey): the key is moved in, its bytes are copied
\* into the cipher, and it is dropped on return
Stream_new_released(key) == <<PayloadKey_drop(key)>>

\* The holders released by a decryptor's decrypt: the [u8; 32] that
\* obtain_payload_key returned, at the end of the closure that lends it to
\* Stream::decrypt, and the PayloadKey that Stream::decrypt takes
Decryptor_released(kind, hdr, nonce) ==
    LET payload_key == obtain_payload_key(kind, hdr, nonce) IN
    IF ~payload_key.ok THEN <<>>
    ELSE Stream_new_released(payload_key.v) \o <<Array_release(payload_key.v)>>

RECURSIVE Headers(_)
Headers(n) ==
    IF n = 0 THEN {<<>>}
    ELSE LET shorter == Headers(n - 1) IN
         shorter \cup {Append(h, st) : h \in {g \in shorter : Len(g) = n - 1},
                                       st \in Stanzas}

InitKey ==
    /\ phase = "decryptor"
    /\ written = 0
    /\ finished = FALSE
    /\ writer = Stream_encrypt(Key, <<>>)
    /\ enc_log = <<>>
    /\ tampered = 0
    /\ header = 0
    /\ reader = NoReader
    /\ out = <<>>
    /\ prim = NoPrim
    /\ dec \in {[kind |-> "new", header |-> [recipients |-> h, mac_ok |-> m],
                 res |-> Ok(<<>>), released |-> <<>>] :
                    h \in Headers(MaxStanzas), m \in BOOLEAN}

\* RecipientsDecryptor::decrypt(identities)
DecryptRecipients ==
    /\ dec.kind = "new"
    /\ dec' = [dec EXCEPT
            !.kind = "recipients",
            !.res = Decryptor_decrypt("recipients", dec.header,
                        HeaderNonce, [data |-> <<>>, pos |-> 0]),
            !.released = Decryptor_released("recipients", dec.header, HeaderNonce)]
    /\ UNCHANGED <<StreamVars, prim>>

\* PassphraseDecryptor::decrypt(passphrase, max_work_factor)
DecryptPassphrase ==
    /\ dec.kind = "new"
    /\ dec' = [dec EXCEPT
            !.kind = "passphrase",
            !.res = Decryptor_decrypt("passphrase", dec.header,
                        HeaderNonce, [data |-> <<>>, pos |-> 0]),
            !.released = Decryptor_released("passphrase", dec.header, HeaderNonce)]
    /\ UNCHANGED <<StreamVars, prim>>

NextKey == DecryptRecipients \/ DecryptPassphrase

SpecKey == InitKey /\ [][NextKey]_vars

(***************************************************************************)
(* Claims about the writer and about reading front to back (Spec).         *)
(***************************************************************************)
Reading == phase \in {"reading", "sought"}

\* C1 (round trip).  Over a finished stream read front to back with
\* non-empty buffers: no read fails, the bytes returned so far are the
\* plaintext's first bytes, each read returns the next bytes of the
\* plaintext (at least one while any is left), and a read returns no bytes
\* exactly when the whole plaintext has been returned.
C1_RoundTrip ==
    (finished /\ phase \notin {"writing", "closed"}) =>
        /\ phase = "reading"
        /\ out = SubSeq(Plain, 1, Len(out))
        /\ \A n \in 1..MaxBuf :
            LET x == read(reader, n) IN
            /\ x.res.kind = "Ok"
            /\ x.res.n <= n
            /\ (Len(out) < written) => x.res.n >= 1
            /\ x.res.data = SubSeq(Plain, Len(out) + 1, Len(out) + x.res.n)
            /\ (x.res.n = 0) <=> (out = Plain)

\* Two full chunks and a remainder were written in whatever write calls,
\* read back whole behind a header, and the next read reports the end.
C1_Witness ==
    /\ finished /\ phase = "reading" /\ header > 0
    /\ written > 2 * CHUNK_SIZE
    /\ out = Plain
    /\ read(reader, 1).res = ResOk(0, <<>>)

\* C2 (no finish).  Over the sink of a writer that accepted plaintext and
\* was dropped without finish, a read never reports a clean end of stream:
\* it returns bytes or fails with UnexpectedEof.
C2_UnfinishedIsAnError ==
    (phase = "reading" /\ ~finished /\ written > 0) =>
        \A n \in 1..MaxBuf :
            LET x == read(reader, n) IN
            /\ x.res.kind = "Ok" => x.res.n > 0
            /\ x.res.kind = "Err" => x.res.err = "UnexpectedEof"

\* The chunk a byte of the sink lies in, counted from 0
ChunkOf(p) == (p - 1) \div ENCRYPTED_CHUNK_SIZE
\* The number of chunks a sink of len bytes splits into
ChunksIn(len) == (len + ENCRYPTED_CHUNK_SIZE - 1) \div ENCRYPTED_CHUNK_SIZE
NonceOf(e) == aead_nonce(e.position, e.last_block)

\* C6 (nonce uniqueness).  The i-th encryption of a writer runs at position
\* 256 * (i - 1); the nonces of its encryptions are all computed and
\* pairwise distinct, as are the (position, flag) pairs; and every byte in
\* the sink carries the nonce of the encryption of its chunk.
C6_NoncesDistinct ==
    /\ \A i \in 1..Len(enc_log) :
        /\ enc_log[i].position = U128(256 * (i - 1))
        /\ NonceOf(enc_log[i]).ok
    /\ \A i, j \in 1..Len(enc_log) :
        i # j => /\ NonceOf(enc_log[i]).v # NonceOf(enc_log[j]).v
                 /\ enc_log[i] # enc_log[j]
    /\ Len(enc_log) = ChunksIn(Len(writer.inner))
    /\ \A p \in 1..Len(writer.inner) :
        writer.inner[p].n = NonceOf(enc_log[ChunkOf(p) + 1]).v

C6_Witness ==
    /\ finished /\ Len(enc_log) = 3
    /\ enc_log[3] = [position |-> U128(512), last_block |-> TRUE]

\* C8 (wire layout).  After finish the sink is one or more chunks, all but
\* the last of ENCRYPTED_CHUNK_SIZE bytes and the last of TAG_SIZE to
\* ENCRYPTED_CHUNK_SIZE bytes; the bytes of the last chunk, and only they,
\* are encrypted under a nonce whose flag byte is 1; and the chunks hold
\* CHUNK_SIZE plaintext bytes each but the last.
C8_WireLayout ==
    finished =>
        LET sink == writer.inner
            N == ChunksIn(Len(sink))
            last_len == Len(sink) - (N - 1) * ENCRYPTED_CHUNK_SIZE
        IN
        /\ N >= 1
        /\ last_len >= TAG_SIZE /\ last_len <= ENCRYPTED_CHUNK_SIZE
        /\ Len(sink) = written + N * TAG_SIZE
        /\ \A p \in 1..Len(sink) :
            sink[p].n[12] = (IF ChunkOf(p) = N - 1 THEN 1 ELSE 0)
        /\ \A i \in 1..Len(enc_log) : enc_log[i].last_block <=> (i = N)

\* A plaintext of exactly two chunks: the last chunk on the wire is full.
C8_Witness ==
    /\ finished /\ written = 2 * CHUNK_SIZE
    /\ Len(writer.inner) = 2 * ENCRYPTED_CHUNK_SIZE

\* C24 (zero-length read).  Over a finished stream read front to back, a
\* read with an empty buffer returns Ok(0), and the read after it returns
\* what it would have returned without it: the next bytes of the plaintext.
C24_EmptyReadIsInvisible ==
    (phase = "reading" /\ finished) =>
        LET z == read(reader, 0) IN
        /\ z.res = ResOk(0, <<>>)
        /\ \A n \in 1..MaxBuf :
            /\ read(z.r, n).res = read(reader, n).res
            /\ read(z.r, n).res.data
                = SubSeq(Plain, Len(out) + 1, Len(out) + read(z.r, n).res.n)

(***************************************************************************)
(* Claims about a changed container (SpecTamper).                          *)
(***************************************************************************)
\* Plaintext offset at which the chunk holding the changed byte begins
TamperedFrom == ChunkOf(tampered) * CHUNK_SIZE

\* C5 (tamper detection).  With one byte of chunk c changed, the bytes
\* returned are the plaintext's first bytes and end before chunk c; while
\* bytes before chunk c are left each read returns the next of them; and
\* every read from there on, which pulls chunk c or has pulled it, fails
\* with InvalidData and leaves no chunk resident.
C5_TamperDetected ==
    (tampered # 0 /\ phase \notin {"writing", "closed"}) =>
        /\ phase = "reading"
        /\ out = SubSeq(Plain, 1, Len(out))
        /\ Len(out) <= TamperedFrom
        /\ \A n \in 1..MaxBuf :
            LET x == read(reader, n) IN
            IF Len(out) < TamperedFrom
            THEN /\ x.res.kind = "Ok"
                 /\ x.res.n >= 1 /\ x.res.n <= n
                 /\ x.res.data = SubSeq(Plain, Len(out) + 1, Len(out) + x.res.n)
            ELSE /\ x.res = ResErr("InvalidData")
                 /\ ~x.r.chunk.some

\* A byte of the second chunk was changed; the first chunk was returned
\* whole and the read that pulls the second fails.
C5_Witness ==
    /\ tampered # 0 /\ phase = "reading"
    /\ ChunkOf(tampered) = 1
    /\ Len(out) = CHUNK_SIZE
    /\ reader.encrypted_pos = 0
    /\ read(reader, 1).res = ResErr("InvalidData")

\* C16 (chunk acceptance).  For the chunk the next read pulls, at the
\* counter the reader stands at: a chunk shorter than a full one is taken
\* exactly when it authenticates as the final chunk; a full one is taken
\* as non-final when it authenticates so, the counter moving on by one
\* chunk, and otherwise as final when it authenticates so at the same
\* counter, which then stays; a chunk taken becomes the resident chunk,
\* and one that is not taken makes the read fail with InvalidData, the
\* counter left where it was.
C16_ChunkAcceptance ==
    (phase = "reading" /\ ~reader.chunk.some) =>
        LET p == pull(reader)
            c == SubSeq(p.encrypted_chunk, 1, p.encrypted_pos)
            at == reader.stream.position
            asNext == decrypt_in_place(Key, at, FALSE, c)
            asLast == decrypt_in_place(Key, at, TRUE, c)
            d == decrypt_chunk(p)
        IN
        (c # <<>>) =>
            IF Len(c) = ENCRYPTED_CHUNK_SIZE /\ asNext.ok
            THEN /\ d.res.kind = "Ok"
                 /\ d.r.chunk = Some(asNext.v)
                 /\ d.r.stream.position = Add(at, COUNTER_INCR)
            ELSE IF asLast.ok
            THEN /\ d.res.kind = "Ok"
                 /\ d.r.chunk = Some(asLast.v)
                 /\ d.r.stream.position = at
            ELSE /\ d.res = ResErr("InvalidData")
                 /\ ~d.r.chunk.some
                 /\ d.r.stream.position = at

\* A full-size chunk that is not a non-final chunk at the counter was
\* taken as the final chunk, after a first chunk, and the counter stayed.
C16_Witness ==
    /\ phase = "reading" /\ tampered = 0
    /\ written = 2 * CHUNK_SIZE
    /\ Len(out) = CHUNK_SIZE + 1
    /\ reader.chunk.some /\ Len(reader.chunk.v) = CHUNK_SIZE
    /\ reader.stream.position = COUNTER_INCR

\* C18: until the first seek, the count in StartPos::Implicit is the
\* number of bytes the reader has pulled from the source since it was
\* constructed, after any reads, failed ones included; so the start the
\* first seek caches is the source's position at construction.
C18_CountIsPulled ==
    (phase = "reading" /\ reader.start.kind = "Implicit") =>
        /\ reader.start.v = reader.inner.pos - header
        /\ \A x \in start(reader) :
               x.res.kind = "Ok" /\ x.res.n = header

(***************************************************************************)
(* Claims about seeking (SpecSeek).                                        *)
(***************************************************************************)
SeekArgs ==
    {[whence |-> w, offset |-> o] :
        w \in {"Start", "Current", "End"}, o \in (-MaxOff)..MaxOff}

\* The plaintext offset a seek asks for
TrueTarget(pos) ==
    IF pos.whence = "Start" THEN pos.offset
    ELSE IF pos.whence = "Current" THEN reader.cur_plaintext_pos + pos.offset
    ELSE written + pos.offset

\* C3 (seek returns the right data).  On a reader over a finished stream,
\* in any state reads and seeks lead to, a seek to a target t inside the
\* plaintext returns t and the read after it returns the plaintext from t.
C3_SeekReturnsData ==
    (Reading /\ finished /\ tampered = 0) =>
        \A pos \in SeekArgs :
            LET t == TrueTarget(pos) IN
            (t >= 0 /\ t < written /\ (pos.whence = "Start" => pos.offset >= 0)) =>
                \A x \in seek(reader, pos) :
                    /\ x.res.kind = "Ok" /\ x.res.n = t
                    /\ \A n \in 1..MaxBuf :
                        LET y == read(x.r, n) IN
                        /\ y.res.kind = "Ok"
                        /\ y.res.n >= 1
                        /\ y.res.data = SubSeq(Plain, t + 1, t + y.res.n)

\* C4 (length for SeekFrom::End).  The plaintext length an End-relative
\* seek works from is the ciphertext length less TAG_SIZE for each of its
\* ceil(ciphertext_len / ENCRYPTED_CHUNK_SIZE) chunks, which is the
\* plaintext length, so that End(0) asks for offset n.
C4_EndIsLength ==
    (Reading /\ finished /\ tampered = 0) =>
        \A s \in start(reader) :
            s.res.kind = "Ok" =>
                LET ct_len == Len(reader.inner.data) - s.res.n IN
                /\ pt_end_of(s.r, s.res.n) = ct_len - TAG_SIZE * ChunksIn(ct_len)
                /\ target_of(s.r, s.res.n, [whence |-> "End", offset |-> 0])
                    = written

\* C10 (seek before the start).  A Current- or End-relative seek whose
\* target is negative returns the InvalidData error and leaves the cursor,
\* the resident chunk, the decryptor and the source's position unchanged.
C10_SeekBeforeStart ==
    (Reading /\ finished /\ tampered = 0) =>
        \A pos \in SeekArgs :
            (pos.whence # "Start" /\ TrueTarget(pos) < 0) =>
                \A x \in seek(reader, pos) :
                    /\ x.res = ResErr("InvalidData")
                    /\ x.r.cur_plaintext_pos = reader.cur_plaintext_pos
                    /\ x.r.chunk = reader.chunk
                    /\ x.r.stream = reader.stream
                    /\ x.r.inner = reader.inner

\* C17 (counter follows the source).  After a Start- or Current-relative
\* seek to a target inside the plaintext and in another chunk than the
\* current one, when no chunk is resident and none is partly pulled, the
\* source stands at the start of a chunk and the decryption counter is
\* that chunk's index.
C17_CounterFollowsSource ==
    (Reading /\ finished /\ tampered = 0) =>
        \A pos \in SeekArgs :
            LET t == TrueTarget(pos) IN
            (/\ pos.whence # "End"
             /\ pos.whence = "Start" => pos.offset >= 0
             /\ t >= 0 /\ t < written
             /\ t \div CHUNK_SIZE # reader.cur_plaintext_pos \div CHUNK_SIZE) =>
                \A x \in seek(reader, pos) :
                    (x.res.kind # "Panic" /\ ~x.r.chunk.some
                        /\ x.r.encrypted_pos = 0) =>
                        /\ x.r.inner.pos
                            = header + (t \div CHUNK_SIZE) * ENCRYPTED_CHUNK_SIZE
                        /\ x.r.stream.position
                            = U128(256 * (t \div CHUNK_SIZE))

\* C19 (seek inside the current chunk).  A seek whose target has the chunk
\* index of the current plaintext offset returns the target, sets the
\* cursor to it and leaves the resident chunk, the decryption counter, the
\* ciphertext buffer and the source's position as they were.
C19_SeekInChunk ==
    (Reading /\ finished /\ tampered = 0) =>
        \A pos \in SeekArgs :
            LET t == TrueTarget(pos) IN
            (/\ pos.whence = "Start" => pos.offset >= 0
             /\ t >= 0
             /\ t \div CHUNK_SIZE = reader.cur_plaintext_pos \div CHUNK_SIZE) =>
                \A x \in seek(reader, pos) :
                    /\ x.res.kind = "Ok" /\ x.res.n = t
                    /\ x.r.cur_plaintext_pos = t
                    /\ x.r.chunk = reader.chunk
                    /\ x.r.stream = reader.stream
                    /\ x.r.encrypted_chunk = reader.encrypted_chunk
                    /\ x.r.encrypted_pos = reader.encrypted_pos
                    /\ x.r.inner = reader.inner

\* C26 (cursor inside the resident chunk).  Whenever a decrypted chunk is
\* resident, the cursor's offset in its chunk is at most the chunk's
\* length, and a read does not fail on the byte count: it returns bytes or
\* 0.
C26_CursorInChunk ==
    (Reading /\ finished /\ tampered = 0 /\ reader.chunk.some) =>
        /\ reader.cur_plaintext_pos % CHUNK_SIZE <= Len(reader.chunk.v)
        /\ \A n \in 1..MaxBuf : read(reader, n).res.kind = "Ok"

\* The next k bytes of the plaintext offered to the writer
NextInput(k) == SubSeq(Pattern, written + 1, written + k)

\* C14 (deferred flush).  A write whose input ends exactly when the buffer
\* is full holds the full buffer: it encrypts nothing, leaves the sink and
\* the counter as they were and keeps the bytes as plaintext.  A full
\* buffer goes out as a non-final chunk, under the counter it was held at,
\* by the next write that brings input, and by no write that brings none;
\* finish sends it as the final chunk.
C14_DeferredFlush ==
    phase = "writing" =>
        /\ \A k \in 1..(MaxLen - written) :
            LET x == write(writer, NextInput(k)) IN
            /\ (Len(writer.chunk) + k = CHUNK_SIZE) =>
                /\ x.res = Ok(k)
                /\ x.used = <<>>
                /\ x.w.inner = writer.inner
                /\ x.w.stream = writer.stream
                /\ x.w.chunk = writer.chunk \o NextInput(k)
            /\ (Len(writer.chunk) = CHUNK_SIZE) =>
                /\ x.used[1] = [position |-> writer.stream.position,
                                last_block |-> FALSE]
                /\ SubSeq(x.w.inner, 1, Len(writer.inner) + ENCRYPTED_CHUNK_SIZE)
                    = writer.inner \o encrypt_in_place(Key,
                        writer.stream.position, FALSE, writer.chunk).v
                /\ x.w.stream.position # writer.stream.position
        /\ (Len(writer.chunk) = CHUNK_SIZE) =>
            /\ write(writer, <<>>) = [w |-> writer, res |-> Ok(0), used |-> <<>>]
            /\ finish(writer).used = <<[position |-> writer.stream.position,
                                        last_block |-> TRUE]>>
            /\ finish(writer).w.inner
                = writer.inner \o encrypt_in_place(Key,
                    writer.stream.position, TRUE, writer.chunk).v

\* One chunk went out and the next full buffer is held.
C14_Witness ==
    /\ phase = "writing"
    /\ written = 2 * CHUNK_SIZE
    /\ Len(writer.chunk) = CHUNK_SIZE
    /\ Len(writer.inner) = ENCRYPTED_CHUNK_SIZE
    /\ writer.stream.position = COUNTER_INCR

\* The plaintext is a positive whole number of chunks
Aligned == written > 0 /\ written % CHUNK_SIZE = 0
\* Length of the last chunk of the finished sink
LastChunkLen == Len(writer.inner) - ENCRYPTED_CHUNK_SIZE * (Len(enc_log) - 1)

\* C15 as stated: a plaintext of a positive whole number of chunks ends in
\* a final chunk shorter than a full chunk, after full non-final chunks.
C15_ShortFinalChunk ==
    (finished /\ phase = "closed" /\ Aligned) =>
        /\ enc_log[Len(enc_log)].last_block
        /\ \A i \in 1..(Len(enc_log) - 1) : ~enc_log[i].last_block
        /\ LastChunkLen >= TAG_SIZE
        /\ LastChunkLen < ENCRYPTED_CHUNK_SIZE

\* C15 (aligned plaintext), amended.  For a plaintext of m >= 1 whole
\* chunks the finished container is m full-size chunks and nothing else:
\* the first m - 1 non-final, the last one the final chunk (flag 1), itself
\* full size and holding the last chunk of plaintext; no empty chunk
\* follows.
C15_FullFinalChunk ==
    (finished /\ phase = "closed" /\ Aligned) =>
        LET m == written \div CHUNK_SIZE IN
        /\ Len(enc_log) = m
        /\ enc_log[m] = [position |-> U128(256 * (m - 1)), last_block |-> TRUE]
        /\ \A i \in 1..(m - 1) : ~enc_log[i].last_block
        /\ Len(writer.inner) = m * ENCRYPTED_CHUNK_SIZE
        /\ SubSeq(writer.inner, (m - 1) * ENCRYPTED_CHUNK_SIZE + 1,
                  m * ENCRYPTED_CHUNK_SIZE)
            = encrypt_in_place(Key, U128(256 * (m - 1)), TRUE,
                SubSeq(Plain, written - CHUNK_SIZE + 1, written)).v

\* Two whole chunks were written and the writer finished.
C15_Witness ==
    /\ finished /\ phase = "closed"
    /\ written = 2 * CHUNK_SIZE
    /\ Len(writer.inner) = 2 * ENCRYPTED_CHUNK_SIZE

(***************************************************************************)
(* Claims about the primitive (SpecNonce).                                 *)
(***************************************************************************)
\* 2^88 - 256
Pow88Less256 == <<0, 0, 255, 65535, 65535, 65535, 65535, 65280>>
\* 2^96
Pow96 == <<0, 1, 0, 0, 0, 0, 0, 0>>

\* C7 as stated: the largest position accepted is 2^88 - 256.
C7_LimitIsPow88 ==
    prim.op # "none" => (prim.res.ok <=> ~GT(prim.position, Pow88Less256))

\* C7 (counter limit), amended.  The largest position is 2^96 - 256:
\* encrypt and decrypt at a position above it return the AEAD error, and
\* at every position up to it they go through, under a nonce that holds
\* the whole position (none of its bits is cut off).
C7_CounterLimit ==
    /\ Add(COUNTER_MAX, U128(256)) = Pow96
    /\ prim.op # "none" =>
        /\ prim.res.ok <=> ~GT(prim.position, COUNTER_MAX)
        /\ ~prim.res.ok => prim.res = Err("aead")
        /\ (prim.res.ok /\ prim.op = "encrypt") =>
            \A i \in 1..Len(prim.res.v) :
                <<0, 0, 0, 0>> \o prim.res.v[i].n
                    = to_be_bytes(BitOrFlag(prim.position, prim.last_block))
        /\ (prim.res.ok /\ prim.op = "decrypt") => prim.res.v = PrimPlain

\* The largest position was encrypted at.
C7_Witness ==
    /\ prim.op = "encrypt" /\ prim.position = COUNTER_MAX /\ prim.res.ok

\* Digit e of a u128 in base 256, digit 0 the least significant
Digit(x, e) ==
    LET limb == x[NLimbs - (e \div 2)] IN
    IF e % 2 = 0 THEN limb % 256 ELSE limb \div 256
\* Digit e of the chunk index position / 256
IndexDigit(position, e) == Digit(position, e + 1)

\* C13 (nonce format).  At a position that is a multiple of 256 and at most
\* COUNTER_MAX, with either flag, the nonce the chunk is encrypted under is
\* twelve bytes: the chunk index position / 256 in eleven bytes, most
\* significant first, then 0 for a non-final and 1 for a final chunk; and
\* decryption at the same position and flag computes the same nonce.
C13_NonceFormat ==
    (prim.op # "none" /\ prim.position[NLimbs] % 256 = 0
        /\ ~GT(prim.position, COUNTER_MAX)) =>
        /\ prim.res.ok
        /\ prim.op = "decrypt" => prim.res.v = PrimPlain
        /\ prim.op = "encrypt" =>
            \A i \in 1..Len(prim.res.v) :
                LET nonce == prim.res.v[i].n IN
                /\ Len(nonce) = 12
                /\ \A j \in 1..11 : nonce[j] = IndexDigit(prim.position, 11 - j)
                /\ nonce[12] = IF prim.last_block THEN 1 ELSE 0

\* The final chunk of index 0x0102030405060708090A0B was encrypted.
C13_Witness ==
    /\ prim.op = "encrypt" /\ prim.last_block /\ prim.res.ok
    /\ prim.res.v[1].n = <<1, 2, 3, 4, 5, 6, 7, 8, 9, 10, 11, 1>>

(***************************************************************************)
(* Claims about the decryptors (SpecKey).                                  *)
(***************************************************************************)
\* What the decryptor's unwrap strategy makes of stanza i
Yields(i) == filter(dec.kind, dec.header.recipients[i], i)
Unwraps(i) == Yields(i).some /\ Yields(i).v.ok
Stanza == 1..Len(dec.header.recipients)
FailedWith(e) == ~dec.res.ok /\ dec.res.v = e
\* The reader is keyed from the file key of stanza i
KeyedFrom(i) ==
    /\ dec.res.ok
    /\ dec.res.v.stream.key.file_key = i
    /\ dec.res.v.stream.key.nonce = HeaderNonce
    /\ dec.res.v.stream.key.over = dec.header.recipients

\* C9 as stated: the key comes from the first stanza whose unwrap succeeds,
\* and the failure is NoMatchingKeys exactly when no stanza unwraps.
C9_FirstThatUnwraps ==
    (dec.kind \in {"recipients", "passphrase"} /\ dec.header.mac_ok) =>
        /\ \A i \in Stanza :
            (Unwraps(i) /\ \A j \in 1..(i - 1) : ~Unwraps(j)) => KeyedFrom(i)
        /\ FailedWith("NoMatchingKeys") <=> (\A i \in Stanza : ~Unwraps(i))

\* C9 (key selection), amended.  The first stanza, in header order, for
\* which the unwrap strategy yields a result decides: if it unwrapped, the
\* payload key is derived from its file key (and the reader keyed with it,
\* or the error of the derivation returned); if its unwrap failed, that
\* error is returned and no later stanza is tried.  The failure is
\* NoMatchingKeys exactly when the strategy yields nothing for every
\* stanza; a stanza for which it yields nothing never keeps a later stanza
\* from being used.
C9_FirstThatYields ==
    dec.kind \in {"recipients", "passphrase"} =>
        /\ \A i \in Stanza :
            (Yields(i).some /\ \A j \in 1..(i - 1) : ~Yields(j).some) =>
                IF ~Yields(i).v.ok THEN FailedWith(Yields(i).v.v)
                ELSE IF dec.header.mac_ok THEN KeyedFrom(i)
                ELSE FailedWith("InvalidMac")
        /\ FailedWith("NoMatchingKeys") <=> (\A i \in Stanza : ~Yields(i).some)

\* The second stanza unwrapped after a first that yielded nothing.
C9_Witness ==
    /\ dec.kind = "recipients" /\ Len(dec.header.recipients) = MaxStanzas
    /\ ~Yields(1).some /\ Unwraps(2)
    /\ KeyedFrom(2)

(***************************************************************************)
(* Claims about the cooperative writer (SpecAsync).                        *)
(***************************************************************************)
\* What write_all then finish deliver to the sink for a plaintext
SyncSink(plain) == finish(write(Stream_encrypt(Key, <<>>), plain).w).w.inner

\* The non-final chunks encrypted so far
NonFinal == {i \in 1..Len(enc_log) : ~enc_log[i].last_block}
\* Every poll_write was given no more than it took in the end: the writer
\* cuts a non-final chunk only when handed input beyond it, so input was
\* left over exactly when the non-final chunks hold all that was accepted.
InputConsumed ==
    written = 0 \/ written > CHUNK_SIZE * Cardinality(NonFinal)

\* C11 (cooperative equals blocking).  Once all input was consumed by
\* poll_write and poll_close is Ready(Ok), the sink holds what the blocking
\* writer delivers for the same plaintext, and a final chunk was emitted.
C11_AsyncEqualsSync ==
    (phase = "closed" /\ finished /\ InputConsumed) =>
        /\ writer.inner = SyncSink(Plain)
        /\ \E i \in 1..Len(enc_log) : enc_log[i].last_block

(***************************************************************************)
(* Claims about the secrets (SpecKey).                                     *)
(***************************************************************************)
\* C12 (secret lifecycle).  Every holder of payload-key bytes that was
\* released, on whatever path decrypt took, had its bytes overwritten with
\* zeros; so had the PayloadKey a stream writer or reader was made from.
C12_KeysZeroized ==
    /\ \A i \in 1..Len(dec.released) : dec.released[i].zeroed
    /\ \A i \in 1..Len(Stream_new_released(Key)) :
            Stream_new_released(Key)[i].zeroed

(***************************************************************************)
(* Claims about source errors (SpecFaulty).                                *)
(***************************************************************************)
\* The bytes of the current chunk the reader holds are the container's
\* bytes up to the source's position.
HeldIsPulled(r) ==
    SubSeq(r.encrypted_chunk, 1, r.encrypted_pos)
        = SubSeq(r.inner.data, r.inner.pos - r.encrypted_pos + 1, r.inner.pos)

\* C20 (source errors).  Over a finished stream, whatever the source
\* answered before: a read whose source answers with Interrupted errors and
\* short reads returns what the read over a well-behaved source returns and
\* leaves the same reader; an error of another kind is returned as it is,
\* the bytes pulled before it are kept, and the read after it returns what
\* the read would have returned without the error and leaves the same
\* reader.  The bytes returned are always the next bytes of the plaintext.
C20_SourceErrors ==
    (phase = "reading" /\ finished) =>
        /\ out = SubSeq(Plain, 1, Len(out))
        /\ HeldIsPulled(reader)
        /\ \A n \in 1..MaxBuf :
            LET plain == read(reader, n) IN
            /\ plain.res.kind = "Ok"
            /\ plain.res.data = SubSeq(Plain, Len(out) + 1, Len(out) + plain.res.n)
            /\ (Len(out) < written) => plain.res.n >= 1
            /\ \A a \in AnswerSeqs(MaxFaults) :
                LET x == read_with(reader, n, a) IN
                IF x.res.kind = "Ok" THEN x = plain
                ELSE /\ x.res = ResErr("TimedOut")
                     /\ \E i \in 1..Len(a) : a[i] = "TimedOut"
                     /\ HeldIsPulled(x.r)
                     /\ x.r.encrypted_pos >= reader.encrypted_pos
                     /\ x.r.stream = reader.stream
                     /\ x.r.chunk = reader.chunk
                     /\ x.r.cur_plaintext_pos = reader.cur_plaintext_pos
                     /\ read(x.r, n) = plain

\* After a first chunk was read, a source error left the reader with a
\* part of the second chunk, Interrupted and a one-byte read before the
\* error included, and the next read goes on.
C20_Witness ==
    /\ phase = "reading" /\ finished
    /\ written > CHUNK_SIZE
    /\ Len(out) = CHUNK_SIZE
    /\ ~reader.chunk.some
    /\ reader.encrypted_pos = 1
    /\ read_with(reader, 1, <<"Interrupted", "One">>).res.n = 1
    /\ read_with(reader, 1, <<"One", "TimedOut">>).res = ResErr("TimedOut")

(***************************************************************************)
(* Claims about the writer's buffer (SpecSink).                            *)
(***************************************************************************)
\* C21 (writer buffer bound).  In every state of a writer, the state a
\* write leaves whose sink write failed included, the buffer holds at most
\* CHUNK_SIZE bytes, all of them plaintext not yet encrypted, and no later
\* write panics on CHUNK_SIZE - buffer length or on the assertion.
C21_BufferBound ==
    (phase = "writing") =>
        /\ Len(writer.chunk) <= CHUNK_SIZE
        /\ \A i \in 1..Len(writer.chunk) : writer.chunk[i].k = 0
        /\ \A k \in 0..(MaxLen - written) : \A room \in 0..MaxRoom :
            \A x \in write_to(writer, SubSeq(Pattern, written + 1, written + k),
                             room) :
                x.res.ok \/ x.res.v # "Panic"

(***************************************************************************)
(* Claims about the chunk in flight (SpecAsync).                           *)
(***************************************************************************)
\* The plaintext of the i-th chunk encrypted: non-final chunks are whole
\* and in order, the final chunk is what is left.
Segment(i) ==
    SubSeq(Plain, (i - 1) * CHUNK_SIZE + 1,
           IF enc_log[i].last_block THEN written ELSE i * CHUNK_SIZE)

\* The encrypted chunks so far, one after the other
RECURSIVE ChunksUpTo(_)
ChunksUpTo(i) ==
    IF i = 0 THEN <<>>
    ELSE ChunksUpTo(i - 1)
         \o encrypt_in_place(Key, U128(256 * (i - 1)), enc_log[i].last_block,
                             Segment(i)).v

\* The bytes of the chunk in flight the sink has not taken
InFlight(w) ==
    IF w.encrypted_chunk.some
    THEN SubSeq(w.encrypted_chunk.v.bytes, w.encrypted_chunk.v.offset + 1,
                Len(w.encrypted_chunk.v.bytes))
    ELSE <<>>

\* C22 (chunk in flight).  Whatever the sink took before each Pending, the
\* sink holds the encrypted chunks in order up to the point the chunk in
\* flight has reached, each byte once; and a poll_write or poll_close
\* whose flush leaves a chunk partly flushed is Pending, takes no plaintext
\* and encrypts nothing.
C22_InFlightChunk ==
    (phase \in {"writing", "closing", "closed"}) =>
        /\ writer.inner \o InFlight(writer) = ChunksUpTo(Len(enc_log))
        /\ \A i \in 1..Len(enc_log) :
                enc_log[i].position = U128(256 * (i - 1))
        /\ writer.encrypted_chunk.some =>
                writer.encrypted_chunk.v.offset
                    < Len(writer.encrypted_chunk.v.bytes)
        /\ phase # "closed" =>
            \A a \in 0..ENCRYPTED_CHUNK_SIZE :
                ~poll_flush_chunk(writer, a).ready =>
                    /\ \A k \in 0..(MaxLen - written) :
                        LET x == poll_write(writer,
                                    SubSeq(Pattern, written + 1, written + k), a)
                        IN /\ x.res = Pending
                           /\ x.used = <<>>
                           /\ x.w.chunk = writer.chunk
                           /\ x.w.stream = writer.stream
                           /\ x.w.inner \o InFlight(x.w)
                                = writer.inner \o InFlight(writer)
                    /\ \A c \in BOOLEAN :
                        LET x == poll_close(writer, a, c)
                        IN /\ x.res = Pending
                           /\ x.used = <<>>
                           /\ x.w.chunk = writer.chunk
                           /\ x.w.stream = writer.stream
                           /\ x.w.inner \o InFlight(x.w)
                                = writer.inner \o InFlight(writer)

\* A second chunk is partly with the sink after a Pending, the first whole
\* before it; the poll_write that cut it took its last byte.
C22_Witness ==
    /\ phase = "writing"
    /\ Len(enc_log) = 2
    /\ writer.encrypted_chunk.some
    /\ writer.encrypted_chunk.v.offset = 2
    /\ Len(writer.inner) = ENCRYPTED_CHUNK_SIZE + 2
    /\ written = 2 * CHUNK_SIZE

\* C23 (final chunk once).  Once poll_close, polled until it is no longer
\* Pending, is Ready(Ok), all input having been consumed: exactly one
\* chunk was encrypted as final, it is the last one encrypted, and the sink
\* holds every chunk once with the final chunk at the end and nothing in
\* flight.
C23_FinalChunkOnce ==
    (phase = "closed" /\ finished /\ InputConsumed) =>
        /\ Cardinality({i \in 1..Len(enc_log) : enc_log[i].last_block}) = 1
        /\ enc_log[Len(enc_log)].last_block
        /\ ~writer.encrypted_chunk.some
        /\ writer.inner = ChunksUpTo(Len(enc_log))

\* C25 (progress of poll_write).  After any earlier polls, a poll_write
\* given a non-empty input that returns Ready(Ok(n)) has n >= 1.
C25_WriteProgress ==
    (phase = "writing") =>
        \A k \in 1..(MaxLen - written) : \A a \in 0..ENCRYPTED_CHUNK_SIZE :
            LET x == poll_write(writer,
                                SubSeq(Pattern, written + 1, written + k), a)
            IN (x.res.ready /\ x.res.ok) => x.res.v >= 1

(***************************************************************************)
(* Claims about the flush loop (SpecFlush).                                *)
(***************************************************************************)
\* C27 (flush terminates).  Every call of poll_flush_chunk that has entered
\* its loop returns, Ready or Pending, whatever the sink answers, a sink
\* that answers Ready(Ok(0)) while bytes of the chunk remain included.
C27_FlushTerminates == (phase = "flushing") ~> (phase = "writing")
=============================================================================
